---- MODULE Spec2Model ----
(***************************************************************************)
(* repo2txt: scan a directory tree, prune ignored entries, classify files  *)
(* as text or binary, and render a tree diagram and a content dump.        *)
(*                                                                         *)
(* Strings are sequences of one-character strings.  A path is a sequence   *)
(* of components (names); the empty path is the filesystem root "/".       *)
(* A file's bytes are `pad` copies of the byte 0x41 followed by the        *)
(* explicit byte sequence `tail`, so that the 1024-byte sample of the      *)
(* classifier is modelled at its real width with short sequences.          *)
(***************************************************************************)
EXTENDS Integers, Sequences, FiniteSets, TLC

VARIABLES
    fs,               \* the filesystem: path -> entry
    root,             \* os.path.abspath(args.path)
    args_ignore,      \* args.ignore: the patterns supplied with --ignore
    max_file_size,    \* args.max_size
    phase,            \* position of main: "scan", "scanned", "tree", "done"
    stack,            \* activation records of scan_directory, innermost last
    root_node,        \* the node scan_directory(path, ...) returned to main
    tree,             \* create_tree_structure(root_node): sequence of lines
    contents,         \* create_file_content_string(root_node): sequence of blocks
    handles,          \* file objects currently open
    opened,           \* paths ever passed to open() in this run
    decided,          \* should_exclude's answers in this run: <<path, answer>>
    denied,           \* directories whose scan was cut short by PermissionError
    changed,          \* the filesystem was modified while the scan ran
    run,              \* number of the current run of main
    first             \* root_node, tree and contents of the first run

vars == <<fs, root, args_ignore, max_file_size, phase, stack, root_node,
          tree, contents, handles, opened, decided, denied, changed, run, first>>

-----------------------------------------------------------------------------
(* Bounds of the model *)

\* longest explicit byte tail of a file
MaxTail == 2
\* file objects the runtime may leave unclosed at once before collecting them
MaxLeaked == 1
\* runs of main over the same snapshot
MaxRuns == 2
\* nesting depth of the chain of directories in the deep family
MaxDepth == 3
\* entries side by side under the root in the sibling family
MaxSiblings == 2

\* chunk = file.read(1024)
ChunkSize == 1024
\* --max-size default
DefaultMaxSize == 100000

-----------------------------------------------------------------------------
(* Characters and strings *)

\* ord(c) for the characters that occur in entry names of the model
Ord(c) ==
    CASE c = "A" -> 65  [] c = "B" -> 66  [] c = "E" -> 69  [] c = "N" -> 78
      [] c = "V" -> 86  [] c = "a" -> 97  [] c = "b" -> 98  [] c = "e" -> 101
      [] c = "n" -> 110 [] c = "r" -> 114 [] c = "v" -> 118

\* str.lower() on one character
LowerChar(c) ==
    CASE c = "A" -> "a" [] c = "B" -> "b" [] c = "E" -> "e" [] c = "N" -> "n"
      [] c = "V" -> "v" [] OTHER -> c

\* str.lower()
Lower(s) == [i \in 1..Len(s) |-> LowerChar(s[i])]

\* the code points of a string: Python compares strings by code point
CodePoints(s) == [i \in 1..Len(s) |-> Ord(s[i])]

\* Python's < on sequences (str, tuple): first difference decides, a proper
\* prefix is smaller
RECURSIVE SeqLess(_, _)
SeqLess(k1, k2) ==
    IF k2 = <<>> THEN FALSE
    ELSE IF k1 = <<>> THEN TRUE
    ELSE IF Head(k1) # Head(k2) THEN Head(k1) < Head(k2)
    ELSE SeqLess(Tail(k1), Tail(k2))

\* insert x (with key kx) into a sequence of <<key, item>> pairs sorted by key,
\* after every pair whose key is not greater: the sort is stable
RECURSIVE InsertByKey(_, _)
InsertByKey(pair, done) ==
    IF done = <<>> THEN <<pair>>
    ELSE IF SeqLess(pair[1], Head(done)[1])
         THEN <<pair>> \o done
         ELSE <<Head(done)>> \o InsertByKey(pair, Tail(done))

RECURSIVE SortPairs(_, _)
SortPairs(pairs, done) ==
    IF pairs = <<>> THEN done
    ELSE SortPairs(Tail(pairs), InsertByKey(Head(pairs), done))

\* sorted(items, key=...) with keys[i] the key of items[i]
SortedByKey(items, keys) ==
    LET pairs == [i \in 1..Len(items) |-> <<keys[i], items[i]>>]
        out   == SortPairs(pairs, <<>>)
    IN  [i \in 1..Len(out) |-> out[i][2]]

\* variant: the listing used in the order the host returns it
sorted_HostOrder(names) == names

\* sorted(names): plain string order
sorted(names) == SortedByKey(names, [i \in 1..Len(names) |-> CodePoints(names[i])])

-----------------------------------------------------------------------------
(* fnmatch and paths *)

\* fnmatch.fnmatch(name, pat) on POSIX (normcase is the identity): "*" matches
\* any run of characters, "/" included, "?" any one character, anything else
\* itself.  Bracket expressions do not occur in the patterns of the model.
RECURSIVE fnmatch(_, _)
fnmatch(name, pat) ==
    IF pat = <<>> THEN name = <<>>
    ELSE IF Head(pat) = "*"
         THEN fnmatch(name, Tail(pat))
              \/ (name # <<>> /\ fnmatch(Tail(name), pat))
    ELSE IF name = <<>> THEN FALSE
    ELSE IF Head(pat) = "?" THEN fnmatch(Tail(name), Tail(pat))
    ELSE Head(name) = Head(pat) /\ fnmatch(Tail(name), Tail(pat))

\* os.path.join(path, item) on component sequences
join(path, item) == Append(path, item)

\* os.path.basename(path); "" for the filesystem root
basename(path) == IF path = <<>> THEN <<>> ELSE path[Len(path)]

\* the components joined by "/" into one string
RECURSIVE JoinSep(_)
JoinSep(comps) ==
    IF comps = <<>> THEN <<>>
    ELSE IF Len(comps) = 1 THEN Head(comps)
    ELSE Head(comps) \o <<"/">> \o JoinSep(Tail(comps))

\* length of the longest common prefix of two component sequences
RECURSIVE CommonLen(_, _)
CommonLen(p, q) ==
    IF p = <<>> \/ q = <<>> \/ Head(p) # Head(q) THEN 0
    ELSE 1 + CommonLen(Tail(p), Tail(q))

\* os.path.relpath(path, start): ".." for every component of start past the
\* common prefix, then the rest of path; "." when nothing is left
relpath(path, start) ==
    LET n    == CommonLen(path, start)
        ups  == [i \in 1..(Len(start) - n) |-> <<".", ".">>]
        rest == SubSeq(path, n + 1, Len(path))
    IN  IF ups \o rest = <<>> THEN <<".">> ELSE JoinSep(ups \o rest)

\* os.path.isdir / os.path.isfile: False for what does not exist
isdir(path)  == path \in DOMAIN fs /\ fs[path].type = "directory"
isfile(path) == path \in DOMAIN fs /\ fs[path].type = "file"

DEFAULT_IGNORE_PATTERNS ==
    << <<"*", ".", "p", "y", "c">>,
       <<"*", ".", "p", "y", "o">>,
       <<"*", ".", "p", "y", "d">>,
       <<"_", "_", "p", "y", "c", "a", "c", "h", "e", "_", "_">>,
       <<"n", "o", "d", "e", "_", "m", "o", "d", "u", "l", "e", "s">>,
       <<"b", "o", "w", "e", "r", "_", "c", "o", "m", "p", "o", "n", "e", "n", "t", "s">>,
       <<".", "g", "i", "t">>,
       <<".", "s", "v", "n">>,
       <<".", "h", "g">>,
       <<".", "g", "i", "t", "i", "g", "n", "o", "r", "e">>,
       <<"*", ".", "s", "v", "g">>,
       <<"*", ".", "p", "n", "g">>,
       <<"*", ".", "j", "p", "g">>,
       <<"*", ".", "j", "p", "e", "g">>,
       <<"*", ".", "g", "i", "f">>,
       <<"v", "e", "n", "v">>,
       <<".", "v", "e", "n", "v">>,
       <<"e", "n", "v">>,
       <<"*", "v", "e", "n", "v", "*">>,
       <<".", "i", "d", "e", "a">>,
       <<".", "v", "s", "c", "o", "d", "e">>,
       <<"*", ".", "l", "o", "g">>,
       <<"*", ".", "b", "a", "k">>,
       <<"*", ".", "s", "w", "p">>,
       <<"*", ".", "t", "m", "p">>,
       <<".", "D", "S", "_", "S", "t", "o", "r", "e">>,
       <<"T", "h", "u", "m", "b", "s", ".", "d", "b">>,
       <<"b", "u", "i", "l", "d">>,
       <<"d", "i", "s", "t">>,
       <<"*", ".", "e", "g", "g", "-", "i", "n", "f", "o">>,
       <<"*", ".", "s", "o">>,
       <<"*", ".", "d", "y", "l", "i", "b">>,
       <<"*", ".", "d", "l", "l">> >>

\* ignore_patterns = DEFAULT_IGNORE_PATTERNS.copy(); ignore_patterns.extend(args.ignore)
ignore_patterns == DEFAULT_IGNORE_PATTERNS \o args_ignore

\* variant: the lower-cased name is tried for every entry, not directories only
should_exclude_FoldAll(path, base_path, patterns) ==
    LET rel_path == relpath(path, base_path)
        name     == basename(path)
    IN  \E i \in 1..Len(patterns) :
            \/ fnmatch(rel_path, patterns[i]) \/ fnmatch(name, patterns[i])
            \/ fnmatch(Lower(name), patterns[i])

\* should_exclude(path, base_path, ignore_patterns): the loop returns True at
\* the first pattern for which either test succeeds
should_exclude(path, base_path, patterns) ==
    LET rel_path == relpath(path, base_path)
        name     == basename(path)
    IN  \E i \in 1..Len(patterns) :
            \/ fnmatch(rel_path, patterns[i]) \/ fnmatch(name, patterns[i])
            \/ /\ isdir(path)
               /\ (fnmatch(name, patterns[i]) \/ fnmatch(Lower(name), patterns[i]))

-----------------------------------------------------------------------------
(* File contents *)

\* variant: range(0x20, 0xFF), which leaves 0xFF out of the deleted set
NotDeleted_ShortRange(b) == ~(b \in {7, 8, 9, 10, 12, 13, 27} \/ (b >= 32 /\ b < 255))

\* bytes.translate(None, delete): what is left of the sample after deleting
\* 7, 8, 9, 10, 12, 13, 27 and 0x20..0xFF
NotDeleted(b) == ~(b \in {7, 8, 9, 10, 12, 13, 27} \/ (b >= 32 /\ b <= 255))

\* file.read(1024) of a file that is pad bytes 0x41 and then tail
chunk(f) ==
    [i \in 1..(IF f.pad >= ChunkSize THEN 0
               ELSE IF f.pad + Len(f.tail) <= ChunkSize THEN Len(f.tail)
               ELSE ChunkSize - f.pad) |-> f.tail[i]]

\* is_text_file(file_path): False when open() raises, else whether nothing of
\* the sample survives the deletion (0x41 itself is in the deleted set)
is_text_file(path) ==
    IF ~fs[path].readable THEN FALSE
    ELSE ~(\E i \in 1..Len(chunk(fs[path])) : NotDeleted(chunk(fs[path])[i]))

\* decoding with encoding='utf-8', errors='ignore': bytes below 0x80 are their
\* own code points; 0xC0, 0xC1 and 0xF5..0xFF start no sequence and are
\* dropped.  Other bytes from 0x80 up do not occur in the model.
RECURSIVE utf8_ignore(_)
utf8_ignore(bytes) ==
    IF bytes = <<>> THEN <<>>
    ELSE IF Head(bytes) < 128 THEN <<Head(bytes)>> \o utf8_ignore(Tail(bytes))
    ELSE utf8_ignore(Tail(bytes))

\* text mode with newline=None: "\r\n" and a lone "\r" are read as "\n"
RECURSIVE universal_newlines(_)
universal_newlines(text) ==
    IF text = <<>> THEN <<>>
    ELSE IF Head(text) = 13
         THEN IF Len(text) >= 2 /\ text[2] = 10
              THEN <<10>> \o universal_newlines(Tail(Tail(text)))
              ELSE <<10>> \o universal_newlines(Tail(text))
    ELSE <<Head(text)>> \o universal_newlines(Tail(text))

\* open(item_path, 'r', encoding='utf-8', errors='ignore').read(): the pad is
\* ASCII "A" throughout, the tail is decoded and its line ends translated
read_text(f) ==
    [sentinel |-> "", pad |-> f.pad, text |-> universal_newlines(utf8_ignore(f.tail))]

BinarySentinel   == [sentinel |-> "[Binary file]", pad |-> 0, text |-> <<>>]
TooLargeSentinel == [sentinel |-> "[File too large to include]", pad |-> 0, text |-> <<>>]

\* os.path.getsize(item_path)
getsize(path) == fs[path].pad + Len(fs[path].tail)

-----------------------------------------------------------------------------
(* Nodes and the two renderers *)

\* the dict scan_directory starts from
NewResult(path) ==
    [name |-> basename(path), type |-> "directory", size |-> 0,
     children |-> <<>>, file_count |-> 0, dir_count |-> 0]

\* child = {...}; result["children"].append(child); size and file_count
AddFile(result, name, file_size, content) ==
    [result EXCEPT
        !.children   = Append(@, [name |-> name, type |-> "file",
                                  size |-> file_size, content |-> content]),
        !.size       = @ + file_size,
        !.file_count = @ + 1]

\* variant: the subdirectory itself is not counted in dir_count
AddSubdir_NoSelf(result, subdir) ==
    [result EXCEPT
        !.children   = Append(@, subdir),
        !.size       = @ + subdir.size,
        !.file_count = @ + subdir.file_count,
        !.dir_count  = @ + subdir.dir_count]

\* result["children"].append(subdir) and the three accumulations
AddSubdir(result, subdir) ==
    [result EXCEPT
        !.children   = Append(@, subdir),
        !.size       = @ + subdir.size,
        !.file_count = @ + subdir.file_count,
        !.dir_count  = @ + 1 + subdir.dir_count]

\* variant: the diagram sorted by name alone
tree_key_NameOnly(x) == CodePoints(Lower(x.name))

\* key=lambda x: (x["type"] != "directory", x["name"].lower())
tree_key(x) ==
    <<IF x.type # "directory" THEN 1 ELSE 0>> \o CodePoints(Lower(x.name))

\* key=lambda x: x["name"].lower()
content_key(x) == CodePoints(Lower(x.name))

\* The glyphs of the diagram are written in ASCII: "L-- " for the corner,
\* "|-- " for the tee, "|   " for the vertical bar.  A line is the record of
\* the three parts the code concatenates before "\n".
RECURSIVE create_tree_structure(_, _, _)
create_tree_structure(node, prefix, is_last) ==
    LET line == IF node.name # <<>>
                THEN << [prefix    |-> prefix,
                         connector |-> IF is_last THEN "L-- " ELSE "|-- ",
                         name      |-> node.name] >>
                ELSE <<>>
    IN  IF node.type = "directory"
        THEN LET new_prefix == Append(prefix, IF is_last THEN "    " ELSE "|   ")
                 children == SortedByKey(node.children,
                                 [i \in 1..Len(node.children) |-> tree_key(node.children[i])])
                 sub[i \in 0..Len(children)] ==
                     IF i = 0 THEN <<>>
                     ELSE sub[i - 1] \o create_tree_structure(children[i], new_prefix,
                                                              i = Len(children))
             IN  line \o sub[Len(children)]
        ELSE line

\* variant: the base path dropped from the "File: " line
join_str_NameOnly(base_path, name) == name

\* os.path.join(base_path, name) on strings, name being relative
join_str(base_path, name) ==
    IF base_path = <<>> THEN name ELSE base_path \o <<"/">> \o name

\* A block is the record of what the code writes between the separators:
\* the path of the "File: " line and the content.
RECURSIVE create_file_content_string(_, _)
create_file_content_string(node, base_path) ==
    IF node.type = "file"
    THEN << [path |-> join_str(base_path, node.name), content |-> node.content] >>
    ELSE IF node.type = "directory"
    THEN LET current_path == IF node.name # <<>> THEN join_str(base_path, node.name)
                             ELSE <<>>
             children == SortedByKey(node.children,
                             [i \in 1..Len(node.children) |-> content_key(node.children[i])])
             sub[i \in 0..Len(children)] ==
                 IF i = 0 THEN <<>>
                 ELSE sub[i - 1] \o create_file_content_string(children[i], current_path)
         IN  sub[Len(children)]
    ELSE <<>>

-----------------------------------------------------------------------------
(* The worlds the runs start from *)

File(pad, tail, readable) ==
    [type |-> "file", pad |-> pad, tail |-> tail, readable |-> readable, listable |-> FALSE]
Dir(listable) ==
    [type |-> "directory", pad |-> 0, tail |-> <<>>, readable |-> FALSE, listable |-> listable]
\* neither a regular file nor a directory (a socket, a dangling symlink)
Other ==
    [type |-> "other", pad |-> 0, tail |-> <<>>, readable |-> FALSE, listable |-> FALSE]

NoNode == [name |-> <<>>, type |-> "none"]

\* Siblings under the root: up to MaxSiblings of the names a, A, b, ENV, each a
\* file, a directory holding one file a, or neither.
TopNames == {<<"a">>, <<"A">>, <<"b">>, <<"E", "N", "V">>}
Supplied == {<<>>, << <<"a">> >>, << <<"b", "/", "a">> >>}

SiblingFS(R, kind) ==
    LET S     == DOMAIN kind
        dirs  == {n \in S : kind[n] = "directory"}
        paths == {R} \cup {join(R, n) : n \in S}
                     \cup {join(join(R, n), <<"a">>) : n \in dirs}
    IN  [p \in paths |->
            IF p = R THEN Dir(TRUE)
            ELSE IF Len(p) = Len(R) + 1
                 THEN CASE kind[basename(p)] = "file" -> File(0, CodePoints(basename(p)), TRUE)
                        [] kind[basename(p)] = "directory" -> Dir(TRUE)
                        [] OTHER -> Other
                 ELSE File(0, <<65, 10>>, TRUE)]

SiblingWorlds ==
    { [fs |-> SiblingFS(R, kind), root |-> R, ignore |-> ign, max_size |-> DefaultMaxSize] :
        R \in {<< <<"r">> >>, <<>>},
        kind \in UNION { [S -> {"file", "directory", "other"}] :
                           S \in {T \in SUBSET TopNames : Cardinality(T) \in 1..MaxSiblings} },
        ign \in Supplied }

\* One file a of every shape beside a plain text file b.
Bytes == {0, 10, 11, 13, 255}
Tails == UNION { [1..n -> Bytes] : n \in 0..MaxTail }

ContentWorlds ==
    { [fs |-> (<< <<"r">> >> :> Dir(TRUE))
              @@ (<< <<"r">>, <<"a">> >> :> File(shape[1], tail, shape[2]))
              @@ (<< <<"r">>, <<"b">> >> :> File(0, <<65>>, TRUE)),
       root |-> << <<"r">> >>, ignore |-> <<>>, max_size |-> max] :
        shape \in {<<0, TRUE>>, <<0, FALSE>>, <<ChunkSize - 1, TRUE>>, <<ChunkSize, TRUE>>},
        tail \in Tails,
        max \in {1, ChunkSize, DefaultMaxSize} }

\* A chain of directories r, r/B, r/B/B, ..., each listable or not and all
\* holding the same files: none, a, or a and b; B sorts before a and b.
RECURSIVE ChainPath(_)
ChainPath(k) == IF k = 0 THEN << <<"r">> >> ELSE join(ChainPath(k - 1), <<"B">>)

DeepFS(listable, nfiles) ==
    LET levels == 0..(MaxDepth - 1)
        paths  == {ChainPath(k) : k \in levels}
                    \cup {join(ChainPath(k), <<"a">>) : k \in {j \in levels : nfiles >= 1}}
                    \cup {join(ChainPath(k), <<"b">>) : k \in {j \in levels : nfiles >= 2}}
    IN  [p \in paths |->
            IF basename(p) = <<"a">> THEN File(0, [i \in 1..Len(p) |-> 65], TRUE)
            ELSE IF basename(p) = <<"b">> THEN File(0, <<10>>, TRUE)
            ELSE Dir(listable[Len(p) - 1])]

DeepWorlds ==
    { [fs |-> DeepFS(listable, nfiles), root |-> << <<"r">> >>, ignore |-> <<>>,
       max_size |-> DefaultMaxSize] :
        listable \in [0..(MaxDepth - 1) -> BOOLEAN], nfiles \in 0..2 }

Worlds == SiblingWorlds \cup ContentWorlds \cup DeepWorlds

\* main() up to the call of scan_directory(path, ignore_patterns, args.max_size)
StartScan(path) == << [path |-> path, result |-> NewResult(path), items |-> <<>>, pc |-> "list"] >>

Init ==
    \E w \in Worlds :
        /\ fs = w.fs
        /\ root = w.root
        /\ args_ignore = w.ignore
        /\ max_file_size = w.max_size
        /\ phase = "scan"
        /\ stack = StartScan(w.root)
        /\ root_node = NoNode
        /\ tree = <<>>
        /\ contents = <<>>
        /\ handles = {}
        /\ opened = {}
        /\ decided = {}
        /\ denied = {}
        /\ changed = FALSE
        /\ run = 1
        /\ first = NoNode

-----------------------------------------------------------------------------
(* scan_directory, one action per step of its loop *)

top       == stack[Len(stack)]
item      == Head(top.items)
item_path == join(top.path, item)

\* os.listdir(path): the names in the directory; the host returns them in
\* any order
listdir(path) ==
    {basename(p) : p \in {q \in DOMAIN fs : Len(q) = Len(path) + 1
                                           /\ SubSeq(q, 1, Len(path)) = path}}
HostOrders(S) == {f \in [1..Cardinality(S) -> S] : \A i, j \in DOMAIN f : f[i] = f[j] => i = j}

\* variant: the threshold itself counts as too large
too_large_inclusive(file_size, max) == file_size >= max

\* if file_size > max_file_size
too_large(file_size, max) == file_size > max

\* the innermost activation with its record replaced
SetTop(frame) == [stack EXCEPT ![Len(stack)] = frame]

\* the loop goes on to the next item
NextItem(frame) == [frame EXCEPT !.items = Tail(@), !.pc = "loop"]

\* variant: the except clause starts result over
after_permission_error_Discard(result) ==
    [result EXCEPT !.children = <<>>, !.size = 0, !.file_count = 0, !.dir_count = 0]

\* what the except clause leaves in result when PermissionError cut the loop
\* short: the children appended so far
after_permission_error(result) == result

\* return result: to the caller's loop (subdir = scan_directory(...) and the
\* lines after it), or to main
ReturnResult(result) ==
    IF Len(stack) = 1
    THEN /\ stack' = <<>>
         /\ root_node' = result
         /\ phase' = "scanned"
    ELSE /\ LET caller == stack[Len(stack) - 1]
            IN  stack' = Append(SubSeq(stack, 1, Len(stack) - 2),
                                NextItem([caller EXCEPT !.result = AddSubdir(@, result)]))
         /\ UNCHANGED <<root_node, phase>>

Scanning(pc) == phase = "scan" /\ stack # <<>> /\ top.pc = pc
AtItem == Scanning("loop") /\ top.items # <<>>
Kept == /\ AtItem
        /\ ~should_exclude(item_path, top.path, ignore_patterns)
        /\ decided' = decided \cup {<<item_path, FALSE>>}

\* for item in sorted(os.listdir(path))
ScanListDir ==
    /\ Scanning("list")
    /\ fs[top.path].listable
    /\ \E order \in HostOrders(listdir(top.path)) :
          stack' = SetTop([top EXCEPT !.items = sorted(order), !.pc = "loop"])
    /\ UNCHANGED <<fs, root, args_ignore, max_file_size, phase, root_node, tree,
                   contents, handles, opened, decided, denied, changed, run, first>>

\* os.listdir raises PermissionError: the message is printed, result returned
ScanListDenied ==
    /\ Scanning("list")
    /\ ~fs[top.path].listable
    /\ denied' = denied \cup {top.path}
    /\ ReturnResult(after_permission_error(top.result))
    /\ UNCHANGED <<fs, root, args_ignore, max_file_size, tree, contents, handles,
                   opened, decided, changed, run, first>>

\* if should_exclude(item_path, path, ignore_patterns): continue
ScanExclude ==
    /\ AtItem
    /\ should_exclude(item_path, top.path, ignore_patterns)
    /\ decided' = decided \cup {<<item_path, TRUE>>}
    /\ stack' = SetTop(NextItem(top))
    /\ UNCHANGED <<fs, root, args_ignore, max_file_size, phase, root_node, tree,
                   contents, handles, opened, denied, changed, run, first>>

\* a file over the threshold: the sentinel, and no open()
ScanFileTooLarge ==
    /\ Kept
    /\ isfile(item_path)
    /\ too_large(getsize(item_path), max_file_size)
    /\ stack' = SetTop(NextItem([top EXCEPT
                   !.result = AddFile(@, item, getsize(item_path), TooLargeSentinel)]))
    /\ UNCHANGED <<fs, root, args_ignore, max_file_size, phase, root_node, tree,
                   contents, handles, opened, denied, changed, run, first>>

\* is_text_file returns False: the with block has closed the file, or open()
\* raised
ScanFileBinary ==
    /\ Kept
    /\ isfile(item_path)
    /\ ~too_large(getsize(item_path), max_file_size)
    /\ ~is_text_file(item_path)
    /\ opened' = opened \cup {item_path}
    /\ handles' = (handles \cup {item_path}) \ {item_path}
    /\ stack' = SetTop(NextItem([top EXCEPT
                   !.result = AddFile(@, item, getsize(item_path), BinarySentinel)]))
    /\ UNCHANGED <<fs, root, args_ignore, max_file_size, phase, root_node, tree,
                   contents, denied, changed, run, first>>

\* is_text_file returns True: the with block has closed the file; the
\* conditional expression goes on to open() it again
ScanFileText ==
    /\ Kept
    /\ isfile(item_path)
    /\ ~too_large(getsize(item_path), max_file_size)
    /\ is_text_file(item_path)
    /\ opened' = opened \cup {item_path}
    /\ handles' = (handles \cup {item_path}) \ {item_path}
    /\ stack' = SetTop([top EXCEPT !.pc = "read"])
    /\ UNCHANGED <<fs, root, args_ignore, max_file_size, phase, root_node, tree,
                   contents, denied, changed, run, first>>

\* open(item_path, 'r', ...).read(): the file object is never closed by the
\* code.  A reference-counting runtime closes it as the temporary dies; any
\* other leaves it open until a later collection.
ScanFileRead ==
    /\ Scanning("read")
    /\ fs[item_path].readable
    /\ opened' = opened \cup {item_path}
    /\ \/ handles' = handles
       \/ /\ Cardinality(handles) < MaxLeaked
          /\ handles' = handles \cup {item_path}
    /\ stack' = SetTop(NextItem([top EXCEPT
                   !.result = AddFile(@, item, getsize(item_path), read_text(fs[item_path]))]))
    /\ UNCHANGED <<fs, root, args_ignore, max_file_size, phase, root_node, tree,
                   contents, decided, denied, changed, run, first>>

\* the second open() raises PermissionError: the except clause of this
\* activation catches it, the rest of the directory is not scanned
ScanReadDenied ==
    /\ Scanning("read")
    /\ ~fs[item_path].readable
    /\ opened' = opened \cup {item_path}
    /\ denied' = denied \cup {top.path}
    /\ ReturnResult(after_permission_error(top.result))
    /\ UNCHANGED <<fs, root, args_ignore, max_file_size, tree, contents, handles,
                   decided, changed, run, first>>

\* elif os.path.isdir(item_path): subdir = scan_directory(item_path, ...)
ScanSubdir ==
    /\ Kept
    /\ ~isfile(item_path)
    /\ isdir(item_path)
    /\ stack' = stack \o StartScan(item_path)
    /\ UNCHANGED <<fs, root, args_ignore, max_file_size, phase, root_node, tree,
                   contents, handles, opened, denied, changed, run, first>>

\* neither branch: the entry is passed over
ScanOther ==
    /\ Kept
    /\ ~isfile(item_path)
    /\ ~isdir(item_path)
    /\ stack' = SetTop(NextItem(top))
    /\ UNCHANGED <<fs, root, args_ignore, max_file_size, phase, root_node, tree,
                   contents, handles, opened, denied, changed, run, first>>

\* the loop is over: return result
ScanReturn ==
    /\ Scanning("loop")
    /\ top.items = <<>>
    /\ ReturnResult(top.result)
    /\ UNCHANGED <<fs, root, args_ignore, max_file_size, tree, contents, handles,
                   opened, decided, denied, changed, run, first>>

\* Environment: another process takes the read permission of the file away
\* between the classifier's open() and the open() of the content read.
RevokeRead ==
    /\ Scanning("read")
    /\ fs[item_path].readable
    /\ fs' = [fs EXCEPT ![item_path].readable = FALSE]
    /\ changed' = TRUE
    /\ UNCHANGED <<root, args_ignore, max_file_size, phase, stack, root_node, tree,
                   contents, handles, opened, decided, denied, run, first>>

\* Runtime: a collection finalizes the file objects left unclosed
CollectGarbage ==
    /\ handles # {}
    /\ handles' = {}
    /\ UNCHANGED <<fs, root, args_ignore, max_file_size, phase, stack, root_node,
                   tree, contents, opened, decided, denied, changed, run, first>>

-----------------------------------------------------------------------------
(* main *)

\* output += create_tree_structure(root_node)
RenderTree ==
    /\ phase = "scanned"
    /\ tree' = create_tree_structure(root_node, <<>>, TRUE)
    /\ phase' = "tree"
    /\ UNCHANGED <<fs, root, args_ignore, max_file_size, stack, root_node, contents,
                   handles, opened, decided, denied, changed, run, first>>

\* output += create_file_content_string(root_node)
RenderContents ==
    /\ phase = "tree"
    /\ contents' = create_file_content_string(root_node, <<>>)
    /\ phase' = "done"
    /\ UNCHANGED <<fs, root, args_ignore, max_file_size, stack, root_node, tree,
                   handles, opened, decided, denied, changed, run, first>>

\* The program is run again on the same snapshot with the same options; the
\* first run's node tree and report are kept for comparison.
Rerun ==
    /\ phase = "done"
    /\ run < MaxRuns
    /\ ~changed
    /\ first' = IF run = 1
                THEN [root_node |-> root_node, tree |-> tree, contents |-> contents]
                ELSE first
    /\ run' = run + 1
    /\ phase' = "scan"
    /\ stack' = StartScan(root)
    /\ root_node' = NoNode
    /\ tree' = <<>>
    /\ contents' = <<>>
    /\ handles' = {}
    /\ opened' = {}
    /\ decided' = {}
    /\ denied' = {}
    /\ UNCHANGED <<fs, root, args_ignore, max_file_size, changed>>

Next ==
    \/ ScanListDir
    \/ ScanListDenied
    \/ ScanExclude
    \/ ScanFileTooLarge
    \/ ScanFileBinary
    \/ ScanFileText
    \/ ScanFileRead
    \/ ScanReadDenied
    \/ ScanSubdir
    \/ ScanOther
    \/ ScanReturn
    \/ RevokeRead
    \/ CollectGarbage
    \/ RenderTree
    \/ RenderContents
    \/ Rerun

Spec == Init /\ [][Next]_vars

-----------------------------------------------------------------------------
(* Reading the results back *)

Range(seq) == {seq[i] : i \in 1..Len(seq)}

\* every node of a tree with the names leading to it from the tree's root
\* (the root's own name left out)
RECURSIVE AllNodes(_)
AllNodes(node) ==
    {[path |-> <<>>, node |-> node]}
    \cup (IF node.type = "directory"
          THEN UNION { {[path |-> <<c.name>> \o d.path, node |-> d.node] : d \in AllNodes(c)} :
                       c \in Range(node.children) }
          ELSE {})

FileNodes(node) == {d \in AllNodes(node) : d.node.type = "file"}
DirNodes(node)  == {d \in AllNodes(node) : d.node.type = "directory"}

RECURSIVE SumSizes(_)
SumSizes(children) ==
    IF children = <<>> THEN 0 ELSE Head(children).size + SumSizes(Tail(children))

Scanned == phase \in {"scanned", "tree", "done"}
Done    == phase = "done"

\* the path in the filesystem of the node reached by the names in rel
FsPath(rel) == root \o rel
\* the names from the scanned root down to the entry at path p
RelNames(p) == SubSeq(p, Len(root) + 1, Len(p))
Below(p) == {q \in DOMAIN fs : Len(q) >= Len(p) /\ SubSeq(q, 1, Len(p)) = p}

\* the "File: " path of the node reached by rel: the names from the root
\* node down, joined
Header(rel) ==
    JoinSep((IF root_node.name # <<>> THEN <<root_node.name>> ELSE <<>>) \o rel)

\* the names from the root down to the node line i of the diagram stands
\* for: at each depth, the name of the last line of that depth so far
LinePath(i) ==
    [k \in 1..Len(tree[i].prefix) |->
        tree[CHOOSE j \in 1..i :
                /\ Len(tree[j].prefix) = k
                /\ \A m \in (j + 1)..i : Len(tree[m].prefix) # k].name]
LinePaths  == {LinePath(i) : i \in 1..Len(tree)}
BlockPaths == {contents[i].path : i \in 1..Len(contents)}
NodePaths  == {d.path : d \in AllNodes(root_node)}

NodeAt(rel) == (CHOOSE d \in AllNodes(root_node) : d.path = rel).node
\* the names leading to the file block i shows
BlockRel(i) == (CHOOSE d \in FileNodes(root_node) : Header(d.path) = contents[i].path).path
BlockOf(rel) == CHOOSE i \in 1..Len(contents) : contents[i].path = Header(rel)
LineOf(rel)  == CHOOSE i \in 1..Len(tree) : LinePath(i) = rel

MatchesAny(str) == \E i \in 1..Len(ignore_patterns) : fnmatch(str, ignore_patterns[i])

-----------------------------------------------------------------------------
(* The claims *)

\* C1: after the scan and both renderings, an entry below the scanned root
\* whose base name or whose path relative to the scanned root matches a
\* pattern of the list is absent, with everything beneath it, from the node
\* tree, the tree diagram and the content dump.
C1_Exclusion ==
    Done =>
        \A p \in DOMAIN fs \ {root} :
            (MatchesAny(basename(p)) \/ MatchesAny(relpath(p, root))) =>
                \A q \in Below(p) :
                    /\ RelNames(q) \notin NodePaths
                    /\ RelNames(q) \notin LinePaths
                    /\ JoinSep((IF basename(root) # <<>> THEN <<basename(root)>> ELSE <<>>)
                               \o RelNames(q)) \notin BlockPaths

\* C2: every File node is given exactly one content form, the size check
\* first: over the threshold the "too large" sentinel and the file is never
\* opened; at or under it "[Binary file]" when the classifier says binary and
\* the decoded text when it says text.
C2_ContentForm ==
    Scanned =>
        \A d \in FileNodes(root_node) :
            LET p == FsPath(d.path)
                size == fs[p].pad + Len(fs[p].tail)
            IN  /\ d.node.size = size
                /\ size > max_file_size =>
                      d.node.content = TooLargeSentinel /\ p \notin opened
                /\ size <= max_file_size /\ ~is_text_file(p) =>
                      d.node.content = BinarySentinel
                /\ size <= max_file_size /\ is_text_file(p) =>
                      /\ d.node.content.sentinel = ""
                      /\ d.node.content = read_text(fs[p])

\* C2 witness: one file exactly at the threshold rendered as text beside one
\* a byte over it rendered as too large.
C2_Witness ==
    /\ Done
    /\ \E d, e \in FileNodes(root_node) :
          /\ d.node.size = max_file_size /\ d.node.content.sentinel = ""
          /\ e.node.size = max_file_size + 1 /\ e.node.content = TooLargeSentinel
          /\ FsPath(e.path) \notin opened

\* the bytes of the file's 1024-byte sample, pad included
SampleHasByte(f, b) ==
    \/ (b = 65 /\ f.pad > 0)
    \/ \E i \in 1..Len(f.tail) : f.pad + i <= ChunkSize /\ f.tail[i] = b
AllowedBytes == {7, 8, 9, 10, 12, 13, 27} \cup (32..255)
OnlyAllowedBytes(f) == \A i \in 1..Len(f.tail) : f.tail[i] \in AllowedBytes
\* the bytes of the file taken as its text, one character per byte
LiteralText(f) == [sentinel |-> "", pad |-> f.pad, text |-> f.tail]
PlainAscii(f) == \A i \in 1..Len(f.tail) : f.tail[i] < 128 /\ f.tail[i] # 13
\* the file's text: its bytes decoded as UTF-8, those that decode to nothing
\* left out, line ends read as "\n"
DecodedText(f) ==
    [sentinel |-> "", pad |-> f.pad,
     text |-> universal_newlines(SelectSeq(f.tail, LAMBDA b : b < 128))]

\* C3 as written: in the content dump a file with 0x00 among its first 1024
\* bytes has content "[Binary file]", and a file of allowed bytes only has
\* its text (read here in the weakest sense, the text as decoded).
C3_AsWritten ==
    Done =>
        \A d \in FileNodes(root_node) :
            LET f == fs[FsPath(d.path)]
                block == contents[BlockOf(d.path)]
            IN  /\ SampleHasByte(f, 0) => block.content = BinarySentinel
                /\ OnlyAllowedBytes(f) => block.content = DecodedText(f)

\* C3 amended: for a file no larger than the threshold: with 0x00 among its
\* first 1024 bytes its block is "[Binary file]"; readable and of allowed
\* bytes only, its block is its text decoded as UTF-8 with undecodable bytes
\* dropped and "\r\n" and "\r" read as "\n", which is the bytes themselves
\* when they are ASCII without "\r".
C3_BinaryDetection ==
    Done =>
        \A d \in FileNodes(root_node) :
            LET f == fs[FsPath(d.path)]
                block == contents[BlockOf(d.path)]
            IN  f.pad + Len(f.tail) <= max_file_size =>
                /\ \E i \in 1..Len(contents) : contents[i].path = Header(d.path)
                /\ SampleHasByte(f, 0) => block.content = BinarySentinel
                /\ OnlyAllowedBytes(f) /\ f.readable =>
                      /\ block.content = DecodedText(f)
                      /\ PlainAscii(f) => block.content = LiteralText(f)

\* C3 witness: a file with 0x00 in its sample shown as binary beside a file
\* of allowed bytes shown with its text, and a file whose 0x00 lies past the
\* sample shown as text.
C3_Witness ==
    /\ Done
    /\ \E d, e \in FileNodes(root_node) :
          /\ SampleHasByte(fs[FsPath(d.path)], 0)
          /\ fs[FsPath(d.path)].readable
          /\ contents[BlockOf(d.path)].content = BinarySentinel
          /\ OnlyAllowedBytes(fs[FsPath(e.path)])
          /\ contents[BlockOf(e.path)].content = LiteralText(fs[FsPath(e.path)])

C3_WitnessPastSample ==
    /\ Done
    /\ \E d \in FileNodes(root_node) :
          /\ 0 \in Range(fs[FsPath(d.path)].tail)
          /\ ~SampleHasByte(fs[FsPath(d.path)], 0)
          /\ contents[BlockOf(d.path)].content.sentinel = ""


\* C4: in the tree scan returns, at every depth and also after a permission
\* error cut part of the walk short, every Directory node's size is the sum
\* of its direct children's sizes, its file_count the number of File nodes
\* anywhere beneath it and its dir_count the number of Directory nodes
\* anywhere beneath it, itself not counted.
C4_Aggregates ==
    Scanned =>
        \A d \in DirNodes(root_node) :
            /\ d.node.size = SumSizes(d.node.children)
            /\ d.node.file_count = Cardinality(FileNodes(d.node))
            /\ d.node.dir_count = Cardinality(DirNodes(d.node)) - 1

\* C4 witness: a tree three levels deep with files at the bottom, in which
\* a permission error ended a directory's loop after a child was appended.
C4_Witness ==
    /\ Done
    /\ \E d \in FileNodes(root_node) : Len(d.path) >= 3
    /\ root_node.dir_count >= 2
    /\ root_node.file_count >= 3
    /\ \E d \in DirNodes(root_node) :
          /\ FsPath(d.path) \in denied
          /\ d.node.children # <<>>
          /\ d.node.dir_count >= 1

\* the children of one directory that two diverging paths pass through
Fork(p, q) == CommonLen(p, q) < Len(p) /\ CommonLen(p, q) < Len(q)
ForkChild(p, q) == NodeAt(SubSeq(p, 1, CommonLen(p, q) + 1))
LowerKey(node) == CodePoints(Lower(node.name))

\* C5: the diagram puts, under every directory, the Directory children (each
\* with all beneath it) before the File children and orders each kind by
\* lower-cased name; the content dump goes through the children by
\* lower-cased name alone.  So where a directory holds a file whose
\* lower-cased name is smaller than a subdirectory's, the diagram shows the
\* subdirectory first and the dump the file's block first.
C5_Orders ==
    Done =>
        /\ \A i, j \in 1..Len(tree) :
              (i < j /\ Fork(LinePath(i), LinePath(j))) =>
                  LET ci == ForkChild(LinePath(i), LinePath(j))
                      cj == ForkChild(LinePath(j), LinePath(i))
                  IN  \/ ci.type = "directory" /\ cj.type = "file"
                      \/ ci.type = cj.type /\ ~SeqLess(LowerKey(cj), LowerKey(ci))
        /\ \A i, j \in 1..Len(contents) :
              (i < j /\ Fork(BlockRel(i), BlockRel(j))) =>
                  ~SeqLess(LowerKey(ForkChild(BlockRel(j), BlockRel(i))),
                           LowerKey(ForkChild(BlockRel(i), BlockRel(j))))

\* C5 witness: file a and directory b side by side, b first in the diagram
\* and a's block before the block of b/a in the dump.
C5_Witness ==
    /\ Done
    /\ \E d, e \in AllNodes(root_node) :
          /\ Len(d.path) = 1 /\ Len(e.path) = 2
          /\ d.node.type = "file" /\ d.node.name = <<"a">>
          /\ SubSeq(e.path, 1, 1) = << <<"b">> >> /\ e.node.type = "file"
          /\ LineOf(e.path) < LineOf(d.path)
          /\ BlockOf(d.path) < BlockOf(e.path)


Parent(p) == SubSeq(p, 1, Len(p) - 1)
\* the directories from the scanned root down to the parent of p
Ancestors(p) == {SubSeq(p, 1, k) : k \in Len(root)..(Len(p) - 1)}
Excluded(p) == should_exclude(p, Parent(p), ignore_patterns)

\* a step in which a PermissionError is caught
PermissionErrorStep == denied' \ denied # {}

\* what the step that catches the error does with the directory D on top
CaughtLocally ==
    /\ top.pc = "list" => top.result.children = <<>>
    /\ IF Len(stack) = 1
       THEN root_node' = top.result /\ phase' = "scanned"
       ELSE LET caller == stack[Len(stack) - 1]
                after  == stack'[Len(stack')]
            IN  /\ phase' = "scan"
                /\ Len(stack') = Len(stack) - 1
                /\ after.path = caller.path
                /\ after.result.children = Append(caller.result.children, top.result)
                /\ after.result.dir_count = caller.result.dir_count + 1 + top.result.dir_count
                /\ after.items = Tail(caller.items)
                /\ after.pc = "loop"

\* every entry that no exclusion and no permission error stands above has
\* its node
RestScanned ==
    Scanned =>
        \A p \in DOMAIN fs \ {root} :
            ( /\ fs[p].type \in {"file", "directory"}
              /\ \A A \in Ancestors(p) : A \notin denied /\ (A # root => ~Excluded(A))
              /\ ~Excluded(p) ) =>
            RelNames(p) \in NodePaths

\* C6: a permission error while directory D is enumerated does not abort the
\* scan: the call for D returns the Directory node with exactly the children
\* appended before the error (none when the listing itself fails), the node
\* is appended to its parent and counted in the parent's dir_count, and the
\* later siblings of D and the rest of the tree are scanned.
C6_PermissionError ==
    /\ [][PermissionErrorStep => CaughtLocally]_vars
    /\ []RestScanned

\* C6 witness: the listing of a directory failed and the finished tree
\* holds that directory, empty, and a later sibling of it; another
\* directory's loop was cut short after children had been appended, and they
\* are in its node.
C6_Witness ==
    /\ Done
    /\ \E d, e \in AllNodes(root_node) :
          /\ d.path # <<>> /\ e.path # <<>>
          /\ Parent(d.path) = Parent(e.path)
          /\ FsPath(d.path) \in denied
          /\ ~fs[FsPath(d.path)].listable
          /\ d.node.children = <<>>
          /\ SeqLess(CodePoints(d.node.name), CodePoints(e.node.name))
    /\ \E d \in DirNodes(root_node) :
          /\ FsPath(d.path) \in denied
          /\ d.node.children # <<>>
          /\ Cardinality(listdir(FsPath(d.path))) > Len(d.node.children)

\* C7: should_exclude folds case for directories only: a directory named n
\* is excluded when n or n lower-cased matches a pattern, any other entry
\* named n only when n itself matches.
C7_CaseAsymmetry ==
    \A dec \in decided :
        LET p == dec[1]
            n == basename(p)
        IN  IF fs[p].type = "directory"
            THEN dec[2] = (MatchesAny(n) \/ MatchesAny(Lower(n)))
            ELSE dec[2] = MatchesAny(n)

\* C7 witness: a directory excluded only through its lower-cased name, and
\* a file kept whose name matches only lower-cased.
C7_Witness ==
    /\ \E dec \in decided :
          /\ fs[dec[1]].type = "directory" /\ dec[2]
          /\ ~MatchesAny(basename(dec[1])) /\ MatchesAny(Lower(basename(dec[1])))
    /\ \E dec \in decided :
          /\ fs[dec[1]].type = "file" /\ ~dec[2]
          /\ ~MatchesAny(basename(dec[1])) /\ MatchesAny(Lower(basename(dec[1])))

\* C8: on one snapshot (nothing modified it) with the same options, a later run ends with the
\* node tree and the report of the first run, whatever order the host lists
\* the directories in, also with sibling names that differ only by case.
C8_Determinism ==
    (run > 1 /\ Done /\ ~changed) =>
        /\ root_node = first.root_node
        /\ tree = first.tree
        /\ contents = first.contents

\* C8 witness: a second run has ended on a root holding a and A.
C8_Witness ==
    /\ run > 1 /\ Done /\ ~changed
    /\ \E d, e \in AllNodes(root_node) :
          /\ Len(d.path) = 1 /\ Len(e.path) = 1
          /\ d.node.name = <<"a">> /\ e.node.name = <<"A">>
          /\ d.node.type = e.node.type

\* C9: a file object opened for an entry is closed before the scan goes on
\* to the next entry: one is open only for the entry being read.
C9_HandlesScoped ==
    \A h \in handles :
        phase = "scan" /\ stack # <<>> /\ top.pc = "read" /\ h = item_path

\* C10: the diagram has exactly one line per node of the tree (none for a
\* root with the empty name), so 1 + dir_count + file_count lines under a
\* named root; the dump has exactly one block per File node and none for a
\* directory, so file_count blocks, each headed by the names from the root
\* down to the file, joined.
C10_Coverage ==
    Done =>
        /\ LinePaths = NodePaths \ (IF root_node.name = <<>> THEN {<<>>} ELSE {})
        /\ Len(tree) = Cardinality(LinePaths)
        /\ root_node.name # <<>> =>
              Len(tree) = 1 + root_node.dir_count + root_node.file_count
        /\ \A i \in 1..Len(tree) : tree[i].name = NodeAt(LinePath(i)).name
        /\ BlockPaths = {Header(d.path) : d \in FileNodes(root_node)}
        /\ Len(contents) = Cardinality(BlockPaths)
        /\ Len(contents) = root_node.file_count
        /\ \A d \in FileNodes(root_node) :
              contents[BlockOf(d.path)].content = d.node.content

\* C10 witness: a named root over directories and several files.
C10_Witness ==
    /\ Done
    /\ root_node.name # <<>>
    /\ root_node.dir_count >= 2
    /\ root_node.file_count >= 3
    /\ Len(tree) = 1 + root_node.dir_count + root_node.file_count

====
